---- MODULE Spec2Model ----
(***************************************************************************)
(* Model of the rule-verification run (crates/cli/src/verify/mod.rs) and   *)
(* of the sub-rewrite computation (crates/config/src/transform/            *)
(* rewriters.rs).                                                          *)
(*                                                                         *)
(*   Spec          one `sg test` run: run_test_rule_impl with its worker   *)
(*                 threads, the reporter lock and the snapshot store       *)
(*   SpecClassify  verify_test_case_simple as a function of its inputs     *)
(*   SpecRewrite   make_edit and Rewriters::compute as functions of their  *)
(*                 inputs                                                  *)
(*   SpecFair      one run under fair scheduling of its threads            *)
(***************************************************************************)
EXTENDS Integers, Sequences, FiniteSets, TLC

(***************************************************************************)
(* Bounds of the model.                                                    *)
(***************************************************************************)
MaxCases == 3
MaxCpus == 4
MaxSamples == 2
MaxRewrites == 2
MaxLen == 4
MaxEdits == 2
MaxListSize == 150
MaxParallelism == 16

(***************************************************************************)
(* Program constants.                                                      *)
(***************************************************************************)
WorkerCap == 12

(***************************************************************************)
(* Option<T>: None is the empty sequence, Some(x) the one-element one.     *)
(***************************************************************************)
None == <<>>
Some(x) == <<x>>
IsSome(o) == Len(o) = 1
Unwrap(o) == o[1]

Min(a, b) == IF a < b THEN a ELSE b

RECURSIVE Flatten(_)
Flatten(ss) == IF Len(ss) = 0 THEN <<>> ELSE Head(ss) \o Flatten(Tail(ss))

(***************************************************************************)
(* The collaborators of the run: the rule table, the test cases and the    *)
(* matcher. A rule is the set of samples it fires on; the snapshot a rule  *)
(* generates for a sample is a function of the rule and the sample.        *)
(***************************************************************************)
Samples == {"ok", "bad"}

RuleTable == [r1 |-> [id |-> "r1", fires |-> {"bad"}],
              r2 |-> [id |-> "r2", fires |-> {"bad"}]]

TestCasePool ==
  { [id |-> "r1",    valid |-> <<"ok">>,  invalid |-> <<"bad">>],
    [id |-> "r2",    valid |-> <<"bad">>, invalid |-> <<"ok", "bad">>],
    [id |-> "ghost", valid |-> <<"ok">>,  invalid |-> <<>>] }

Matches(rule_config, sample) == sample \in rule_config.fires

Generate(rule_config, sample) == [fixed |-> <<"fix", rule_config.id, sample>>]

StaleSnapshot == [fixed |-> <<"stale">>]

(***************************************************************************)
(* CaseStatus.                                                             *)
(***************************************************************************)
Validated == [kind |-> "Validated"]
Reported == [kind |-> "Reported"]
\* index: the invalid-sample slot the snapshots belong to
Wrong(index, actual, expected) ==
  [kind |-> "Wrong", index |-> index, actual |-> actual, expected |-> expected]
Missing(sample) == [kind |-> "Missing", source |-> sample]
Noisy(sample) == [kind |-> "Noisy", source |-> sample]

(***************************************************************************)
(* test_case.rs: classification of one test case.                          *)
(***************************************************************************)
VerifyValid(rule_config, sample) ==
  IF Matches(rule_config, sample) THEN Noisy(sample) ELSE Validated

VerifyInvalid(rule_config, sample) ==
  IF Matches(rule_config, sample) THEN Reported ELSE Missing(sample)

\* snaps: Option<TestSnapshots>; TestSnapshots maps invalid-sample indices to
\* the stored snapshot of that sample.
VerifyInvalidWithSnapshot(rule_config, sample, i, snaps) ==
  IF ~Matches(rule_config, sample) THEN Missing(sample)
  ELSE LET actual == Generate(rule_config, sample) IN
       IF IsSome(snaps) /\ i \in DOMAIN Unwrap(snaps)
       THEN IF Unwrap(snaps)[i] = actual THEN Reported
            ELSE Wrong(i, actual, Some(Unwrap(snaps)[i]))
       ELSE Wrong(i, actual, None)

verify_test_case(test_case, rule_config) ==
  [id |-> test_case.id,
   cases |-> [i \in 1..Len(test_case.valid) |->
                 VerifyValid(rule_config, test_case.valid[i])]
             \o [i \in 1..Len(test_case.invalid) |->
                 VerifyInvalid(rule_config, test_case.invalid[i])]]

verify_test_case_with_snapshots(test_case, rule_config, snaps) ==
  [id |-> test_case.id,
   cases |-> [i \in 1..Len(test_case.valid) |->
                 VerifyValid(rule_config, test_case.valid[i])]
             \o [i \in 1..Len(test_case.invalid) |->
                 VerifyInvalidWithSnapshot(rule_config, test_case.invalid[i], i, snaps)]]

\* HashMap::get on the snapshot collection.
GetSnaps(collection, id) ==
  IF id \in DOMAIN collection THEN Some(collection[id]) ELSE None

\* Mutants of verify_test_case_simple: the snapshot branch always taken, the
\* snapshots ignored, an empty result for an unknown rule id.
verify_test_case_simple_always_snapshots(test_case, rules, snapshots) ==
  IF test_case.id \notin DOMAIN rules THEN None
  ELSE Some(verify_test_case_with_snapshots(
              test_case, rules[test_case.id],
              IF IsSome(snapshots) THEN GetSnaps(Unwrap(snapshots), test_case.id)
              ELSE None))

verify_test_case_simple_ignores_snapshots(test_case, rules, snapshots) ==
  IF test_case.id \notin DOMAIN rules THEN None
  ELSE Some(verify_test_case(test_case, rules[test_case.id]))

verify_test_case_simple_empty_result(test_case, rules, snapshots) ==
  IF test_case.id \notin DOMAIN rules
  THEN Some([id |-> test_case.id, cases |-> <<>>])
  ELSE IF IsSome(snapshots)
       THEN Some(verify_test_case_with_snapshots(
                   test_case, rules[test_case.id],
                   GetSnaps(Unwrap(snapshots), test_case.id)))
       ELSE Some(verify_test_case(test_case, rules[test_case.id]))

\* snapshots: Option<&SnapshotCollection>
verify_test_case_simple(test_case, rules, snapshots) ==
  IF test_case.id \notin DOMAIN rules THEN None
  ELSE LET rule_config == rules[test_case.id] IN
       IF IsSome(snapshots)
       THEN Some(verify_test_case_with_snapshots(
                   test_case, rule_config, GetSnaps(Unwrap(snapshots), test_case.id)))
       ELSE Some(verify_test_case(test_case, rule_config))

(***************************************************************************)
(* reporter.rs and snapshot.rs: the verdict and the reconciliation.        *)
(***************************************************************************)
Passing(status) == status.kind \in {"Validated", "Reported"}

\* Reporter::after_report: (passed, message); the message is not modelled.
after_report(rs) ==
  \A r \in 1..Len(rs) : \A i \in 1..Len(rs[r].cases) : Passing(rs[r].cases[i])

NeedUpdate == [kind |-> "NeedUpdate", accepted |-> {}]
AcceptAll == [kind |-> "AcceptAll", accepted |-> {}]
Selectively(ids) == [kind |-> "Selectively", accepted |-> ids]

\* One Wrong status merged into the snapshots of its rule id.
MergeStatus(collection, id, status) ==
  IF status.kind # "Wrong" THEN collection
  ELSE LET old == IF id \in DOMAIN collection THEN collection[id] ELSE <<>>
           new == [i \in DOMAIN old \cup {status.index} |->
                     IF i = status.index THEN status.actual ELSE old[i]]
       IN [k \in DOMAIN collection \cup {id} |->
             IF k = id THEN new ELSE collection[k]]

RECURSIVE MergeCases(_, _, _)
MergeCases(collection, id, cases) ==
  IF Len(cases) = 0 THEN collection
  ELSE MergeCases(MergeStatus(collection, id, Head(cases)), id, Tail(cases))

RECURSIVE MergeResults(_, _, _)
MergeResults(collection, rs, accepted) ==
  IF Len(rs) = 0 THEN collection
  ELSE MergeResults(
         IF Head(rs).id \in accepted
         THEN MergeCases(collection, Head(rs).id, Head(rs).cases)
         ELSE collection,
         Tail(rs), accepted)

\* SnapshotAction::update_snapshot_collection: Option<SnapshotCollection>
update_snapshot_collection(action, collection, rs) ==
  CASE action.kind = "NeedUpdate" -> None
    [] action.kind = "AcceptAll" ->
         Some(MergeResults(collection, rs, {rs[r].id : r \in 1..Len(rs)}))
    [] OTHER -> Some(MergeResults(collection, rs, action.accepted))

(***************************************************************************)
(* State of one run of run_test_rule_impl.                                 *)
(***************************************************************************)
VARIABLES
  test_cases,           \* the TestHarness's test cases
  num_cpus,             \* num_cpus::get()
  skip_snapshot_tests,  \* arg.skip_snapshot_tests
  files,                \* the snapshot store: rule id -> snapshots of its file
  dirs,                 \* the snapshot directories that exist
  snapshots,            \* Option<SnapshotCollection> of the run (line 76)
  pc,                   \* position of the coordinating thread
  spawned,              \* number of worker threads started
  joined,               \* number of worker threads joined
  workers,              \* per worker: pc, index in its chunk, current result, output
  lock,                 \* holder of the reporter mutex
  output,               \* what the reporter has emitted
  results,              \* the Vec parallel_collect builds
  action,               \* Option<SnapshotAction> collected
  merged,               \* the merged collection still to be written
  result,               \* Option of the run's return value
  prev,                 \* how the previous run of the verifier ended
  store0,               \* the snapshot store as it was when this run started
  call,                 \* a function being verified and its arguments (SpecClassify,
                        \* SpecRewrite)
  ret                   \* Option of the value the call returned

runVars == <<test_cases, num_cpus, skip_snapshot_tests, files, dirs, snapshots,
             pc, spawned, joined, workers, lock, output, results, action,
             merged, result, prev, store0>>

\* Every rule id's snapshot file lives in the one snapshot directory.
SnapshotDir == "__snapshots__"
path_map(id) == SnapshotDir

(***************************************************************************)
(* parallel_collect: chunking.                                             *)
(***************************************************************************)
\* line 38: num_cpus::get().min(12)
CpuCountUncapped(cpus) == cpus

CpuCount(cpus) == Min(cpus, WorkerCap)

\* The chunk size as a rounded-up quotient that is never zero.
ChunkSizeCeil(n, cpus) ==
  IF n = 0 THEN 1 ELSE (n + CpuCount(cpus) - 1) \div CpuCount(cpus)

\* line 39: (cases.len() + cpu_count) / cpu_count
ChunkSize(n, cpus) == (n + CpuCount(cpus)) \div CpuCount(cpus)

\* cases.chunks(chunk_size): the number of chunks of a list of n cases
NumChunksOf(n, cpus) == (n + ChunkSize(n, cpus) - 1) \div ChunkSize(n, cpus)

cpu_count == CpuCount(num_cpus)

chunk_size == ChunkSize(Len(test_cases), num_cpus)

\* cases.chunks(chunk_size): the number of chunks and the k-th chunk
NumChunks == NumChunksOf(Len(test_cases), num_cpus)

\* Chunks that start on the last case of the chunk before them.
ChunkOverlapping(k) ==
  SubSeq(test_cases, IF k = 1 THEN 1 ELSE (k - 1) * chunk_size,
         Min(k * chunk_size, Len(test_cases)))

Chunk(k) ==
  SubSeq(test_cases, (k - 1) * chunk_size + 1, Min(k * chunk_size, Len(test_cases)))

(***************************************************************************)
(* The initial state: the test harness is loaded, the reporter built.      *)
(***************************************************************************)
RECURSIVE SeqsUpTo(_, _)
SeqsUpTo(S, n) ==
  IF n = 0 THEN {<<>>}
  ELSE LET shorter == SeqsUpTo(S, n - 1)
       IN shorter \cup {Append(q, x) : q \in {t \in shorter : Len(t) = n - 1}, x \in S}

\* Snapshot stores a run can start from: no snapshot directory at all, or
\* stored snapshots of an older version of the rules.
InitialStores ==
  { [files |-> <<>>, dirs |-> {}],
    [files |-> [r1 |-> <<StaleSnapshot>>], dirs |-> {SnapshotDir}] }

\* The reporter mutex: free, or held by a thread (worker k, or the
\* coordinating thread).
MainThread == 0
Free == None
HeldBy(thread) == Some(thread)

NotSpawned == [pc |-> "unspawned", i |-> 1, cur |-> None, out |-> <<>>]

\* The stored snapshots handed to the run although they are to be skipped.
LoadSnapshotsAlways(skip, stored) == Some(stored)

\* line 76: (!arg.skip_snapshot_tests).then_some(snapshots)
LoadSnapshots(skip, stored) == IF skip THEN None ELSE Some(stored)

\* What run_test_rule_impl has done when it reaches line 77, given the inputs.
StartRun(cases, cpus, skip, store, before) ==
  /\ test_cases = cases
  /\ num_cpus = cpus
  /\ skip_snapshot_tests = skip
  /\ files = store.files
  /\ dirs = store.dirs
  /\ snapshots = LoadSnapshots(skip, store.files)
  /\ pc = "before_report"
  /\ spawned = 0
  /\ joined = 0
  /\ workers = [k \in 1..NumChunks |-> NotSpawned]
  /\ lock = Free
  /\ output = <<>>
  /\ results = <<>>
  /\ action = None
  /\ merged = <<>>
  /\ result = None
  /\ prev = before
  /\ store0 = store

\* What num_cpus::get() can return: a small machine, or one with more cores
\* than the cap on the workers (and than the cases of any list).
Parallelism == (1..(MaxCpus - 1)) \cup {WorkerCap + MaxCpus}

InitRun ==
  \E cases \in SeqsUpTo(TestCasePool, MaxCases), cpus \in Parallelism,
     skip \in BOOLEAN, store \in InitialStores :
    StartRun(cases, cpus, skip, store, "none")

(***************************************************************************)
(* run_test_rule_impl, the coordinating thread up to the verdict.          *)
(***************************************************************************)
\* line 79: reporter.lock().unwrap().before_report(&test_cases)
BeforeReport ==
  /\ pc = "before_report"
  /\ lock = Free
  /\ output' = Append(output, <<"before_report">>)
  /\ pc' = "spawn"
  /\ UNCHANGED <<test_cases, num_cpus, skip_snapshot_tests, files, dirs, snapshots,
                 spawned, joined, workers, lock, results, action, merged, result,
                 prev, store0, call, ret>>

\* parallel_collect lines 41-51: one thread per chunk, all started before any join
Spawn ==
  /\ pc = "spawn"
  /\ spawned < NumChunks
  /\ spawned' = spawned + 1
  /\ workers' = [workers EXCEPT ![spawned + 1].pc = "classify"]
  /\ UNCHANGED <<test_cases, num_cpus, skip_snapshot_tests, files, dirs, snapshots,
                 pc, joined, lock, output, results, action, merged, result, prev, store0, call, ret>>

SpawnDone ==
  /\ pc = "spawn"
  /\ spawned = NumChunks
  /\ pc' = "join"
  /\ UNCHANGED <<test_cases, num_cpus, skip_snapshot_tests, files, dirs, snapshots,
                 spawned, joined, workers, lock, output, results, action, merged,
                 result, prev, store0, call, ret>>

\* parallel_collect lines 52-54: join in chunk order, appending each Vec
JoinResultPrepends(rs, out) == out \o rs

JoinResult(rs, out) == rs \o out

Join ==
  /\ pc = "join"
  /\ joined < NumChunks
  /\ workers[joined + 1].pc = "done"
  /\ results' = JoinResult(results, workers[joined + 1].out)
  /\ joined' = joined + 1
  /\ workers' = [workers EXCEPT ![joined + 1].pc = "joined"]
  /\ UNCHANGED <<test_cases, num_cpus, skip_snapshot_tests, files, dirs, snapshots,
                 pc, spawned, lock, output, action, merged, result, prev, store0, call, ret>>

\* The coordinating thread going on once the first worker is joined.
CollectedBeforeJoin ==
  /\ pc = "join"
  /\ joined >= Min(1, NumChunks)
  /\ lock = Free
  /\ lock' = HeldBy(MainThread)
  /\ pc' = "after_report"
  /\ UNCHANGED <<test_cases, num_cpus, skip_snapshot_tests, files, dirs, snapshots,
                 spawned, joined, workers, output, results, action, merged,
                 result, prev, store0, call, ret>>

\* line 96-97: parallel_collect returns, the coordinating thread takes the lock
Collected ==
  /\ pc = "join"
  /\ joined = NumChunks
  /\ lock = Free
  /\ lock' = HeldBy(MainThread)
  /\ pc' = "after_report"
  /\ UNCHANGED <<test_cases, num_cpus, skip_snapshot_tests, files, dirs, snapshots,
                 spawned, joined, workers, output, results, action, merged,
                 result, prev, store0, call, ret>>

(***************************************************************************)
(* A worker thread: check_one_case on each case of its chunk (lines 82-95) *)
(***************************************************************************)
\* line 83
Classify(k) ==
  /\ workers[k].pc = "classify"
  /\ workers' = [workers EXCEPT
       ![k].cur = verify_test_case_simple(Chunk(k)[workers[k].i], RuleTable, snapshots),
       ![k].pc = "lock"]
  /\ UNCHANGED <<test_cases, num_cpus, skip_snapshot_tests, files, dirs, snapshots,
                 pc, spawned, joined, lock, output, results, action, merged,
                 result, prev, store0, call, ret>>

\* The lock taken without waiting for its holder to release it.
LockWithoutWaiting(k) ==
  /\ workers[k].pc = "lock"
  /\ lock' = HeldBy(k)
  /\ workers' = [workers EXCEPT ![k].pc = "report"]
  /\ UNCHANGED <<test_cases, num_cpus, skip_snapshot_tests, files, dirs, snapshots,
                 pc, spawned, joined, output, results, action, merged, result, prev, store0, call, ret>>

\* line 84
Lock(k) ==
  /\ workers[k].pc = "lock"
  /\ lock = Free
  /\ lock' = HeldBy(k)
  /\ workers' = [workers EXCEPT ![k].pc = "report"]
  /\ UNCHANGED <<test_cases, num_cpus, skip_snapshot_tests, files, dirs, snapshots,
                 pc, spawned, joined, output, results, action, merged, result, prev, store0, call, ret>>

\* filter_map (line 47): a None is dropped, a Some is collected
FilterMap(out, r) == IF IsSome(r) THEN Append(out, Unwrap(r)) ELSE out

\* The line emitted and the guard kept: the lock is not released.
ReportKeepsLock(k) ==
  /\ workers[k].pc = "report"
  /\ lock = HeldBy(k)
  /\ LET w == workers[k]
         case == Chunk(k)[w.i]
     IN /\ output' = Append(output,
                       IF IsSome(w.cur) THEN <<"report_case_summary", case.id>>
                       ELSE <<"Configuration not found!", case.id>>)
        /\ workers' = [workers EXCEPT
             ![k].out = FilterMap(w.out, w.cur),
             ![k].cur = None,
             ![k].i = IF w.i < Len(Chunk(k)) THEN w.i + 1 ELSE w.i,
             ![k].pc = IF w.i < Len(Chunk(k)) THEN "classify" ELSE "done"]
  /\ UNCHANGED <<test_cases, num_cpus, skip_snapshot_tests, files, dirs, snapshots,
                 pc, spawned, joined, lock, results, action, merged, result, prev, store0, call, ret>>

\* lines 85-95: the summary or the "Configuration not found" line, then the
\* guard is dropped and the worker goes to its next case
Report(k) ==
  /\ workers[k].pc = "report"
  /\ lock = HeldBy(k)
  /\ LET w == workers[k]
         case == Chunk(k)[w.i]
     IN /\ output' = Append(output,
                       IF IsSome(w.cur) THEN <<"report_case_summary", case.id>>
                       ELSE <<"Configuration not found!", case.id>>)
        /\ workers' = [workers EXCEPT
             ![k].out = FilterMap(w.out, w.cur),
             ![k].cur = None,
             ![k].i = IF w.i < Len(Chunk(k)) THEN w.i + 1 ELSE w.i,
             ![k].pc = IF w.i < Len(Chunk(k)) THEN "classify" ELSE "done"]
  /\ lock' = Free
  /\ UNCHANGED <<test_cases, num_cpus, skip_snapshot_tests, files, dirs, snapshots,
                 pc, spawned, joined, results, action, merged, result, prev, store0, call, ret>>

(***************************************************************************)
(* run_test_rule_impl, the verdict and the reconciliation (lines 98-138).  *)
(***************************************************************************)
Ok == "Ok"
TestFail == "Err(TestFail)"
IoError == "Err(io)"

\* lines 98-101: the verdict; on a pass the message is printed and the run ends
AfterReport ==
  /\ pc = "after_report"
  /\ lock = HeldBy(MainThread)
  /\ IF after_report(results)
     THEN /\ output' = output \o << <<"after_report">>, <<"message">> >>
          /\ result' = Some(Ok)
          /\ pc' = "done"
          /\ lock' = Free
     ELSE /\ output' = Append(output, <<"after_report">>)
          /\ pc' = "report_failed_cases"
          /\ UNCHANGED <<result, lock>>
  /\ UNCHANGED <<test_cases, num_cpus, skip_snapshot_tests, files, dirs, snapshots,
                 spawned, joined, workers, results, action, merged, prev, store0, call, ret>>

\* line 103
ReportFailedCases ==
  /\ pc = "report_failed_cases"
  /\ output' = Append(output, <<"report_failed_cases">>)
  /\ pc' = "collect_snapshot_action"
  /\ UNCHANGED <<test_cases, num_cpus, skip_snapshot_tests, files, dirs, snapshots,
                 spawned, joined, workers, lock, results, action, merged, result,
                 prev, store0, call, ret>>

\* The actions a reporter can answer with: none, all, or the accepted ids.
SnapshotActions ==
  {NeedUpdate, AcceptAll} \cup {Selectively(ids) : ids \in SUBSET DOMAIN RuleTable}

\* line 104
CollectSnapshotAction ==
  /\ pc = "collect_snapshot_action"
  /\ \E a \in SnapshotActions : action' = Some(a)
  /\ output' = Append(output, <<"collect_snapshot_action">>)
  /\ pc' = "apply_snapshot_action"
  /\ UNCHANGED <<test_cases, num_cpus, skip_snapshot_tests, files, dirs, snapshots,
                 spawned, joined, workers, lock, results, merged, result, prev, store0, call, ret>>

\* Mutant of apply_snapshot_action: the action is not consulted.
apply_snapshot_action_ignores_action(act, rs, snaps) ==
  IF ~IsSome(snaps) THEN None
  ELSE update_snapshot_collection(AcceptAll, Unwrap(snaps), rs)

\* apply_snapshot_action lines 116-121: the collection to write, if any
apply_snapshot_action(act, rs, snaps) ==
  IF ~IsSome(snaps) THEN None
  ELSE update_snapshot_collection(act, Unwrap(snaps), rs)

\* lines 105-106: what the run returns once apply_snapshot_action has returned
AfterApplyOkOnUpdate(io_ok) == IF io_ok THEN Ok ELSE IoError

\* The I/O error dropped instead of propagated.
AfterApplyDropsIoError(io_ok) == TestFail

AfterApply(io_ok) == IF io_ok THEN TestFail ELSE IoError

\* line 105, up to the call of write_merged_to_disk
ApplySnapshotAction ==
  /\ pc = "apply_snapshot_action"
  /\ LET m == apply_snapshot_action(Unwrap(action), results, snapshots)
     IN IF IsSome(m)
        THEN /\ merged' = Unwrap(m)
             /\ pc' = "write_merged_to_disk"
             /\ UNCHANGED <<result, lock>>
        ELSE /\ result' = Some(AfterApply(TRUE))
             /\ pc' = "done"
             /\ lock' = Free
             /\ UNCHANGED merged
  /\ UNCHANGED <<test_cases, num_cpus, skip_snapshot_tests, files, dirs, snapshots,
                 spawned, joined, workers, output, results, action, prev, store0, call, ret>>

Without(f, k) == [x \in DOMAIN f \ {k} |-> f[x]]
With(f, k, v) == [x \in DOMAIN f \cup {k} |-> IF x = k THEN v ELSE f[x]]

\* lines 134-135: std::fs::write replaces the file of the rule id
WriteFileKeepsOld(fs, id, snaps) == fs

WriteFile(fs, id, snaps) == With(fs, id, snaps)

\* write_merged_to_disk lines 129-136, one rule id of the HashMap (in any
\* order): the directory is created if absent, then the file is written;
\* either call can fail, and the error ends the run.
WriteOne ==
  /\ pc = "write_merged_to_disk"
  /\ \E id \in DOMAIN merged : \E io \in {"ok", "create_dir failed", "write failed"} :
       LET path == path_map(id) IN
       /\ io = "create_dir failed" => path \notin dirs
       /\ dirs' = IF io = "create_dir failed" THEN dirs ELSE dirs \cup {path}
       /\ IF io = "ok"
          THEN /\ files' = WriteFile(files, id, merged[id])
               /\ merged' = Without(merged, id)
               /\ UNCHANGED <<pc, result, lock>>
          ELSE /\ result' = Some(AfterApply(FALSE))
               /\ pc' = "done"
               /\ lock' = Free
               /\ UNCHANGED <<files, merged>>
  /\ UNCHANGED <<test_cases, num_cpus, skip_snapshot_tests, snapshots,
                 spawned, joined, workers, output, results, action, prev, store0, call, ret>>

\* line 137 and line 106: every file is written
WriteDone ==
  /\ pc = "write_merged_to_disk"
  /\ DOMAIN merged = {}
  /\ result' = Some(AfterApply(TRUE))
  /\ pc' = "done"
  /\ lock' = Free
  /\ UNCHANGED <<test_cases, num_cpus, skip_snapshot_tests, files, dirs, snapshots,
                 spawned, joined, workers, output, results, action, merged, prev, store0, call, ret>>

\* Whether the run that has ended applied and persisted an "update all".
UpdatedAll ==
  /\ result = Some(TestFail)
  /\ action = Some(AcceptAll)
  /\ IsSome(snapshots)

\* The verifier is run again on the same rules, test cases and arguments; it
\* loads the snapshot store as the previous run left it.
Rerun ==
  /\ pc = "done"
  /\ snapshots' = LoadSnapshots(skip_snapshot_tests, files)
  /\ pc' = "before_report"
  /\ spawned' = 0
  /\ joined' = 0
  /\ workers' = [k \in 1..NumChunks |-> NotSpawned]
  /\ output' = <<>>
  /\ results' = <<>>
  /\ action' = None
  /\ merged' = <<>>
  /\ result' = None
  /\ prev' = IF UpdatedAll THEN "updated_all" ELSE "none"
  /\ store0' = [files |-> files, dirs |-> dirs]
  /\ UNCHANGED <<test_cases, num_cpus, skip_snapshot_tests, files, dirs, lock,
                 call, ret>>

Worker == \E k \in 1..NumChunks : Classify(k) \/ Lock(k) \/ Report(k)

parallel_collect == Spawn \/ SpawnDone \/ Worker \/ Join

NextRun ==
  \/ BeforeReport
  \/ parallel_collect
  \/ Collected
  \/ AfterReport
  \/ ReportFailedCases
  \/ CollectSnapshotAction
  \/ ApplySnapshotAction
  \/ WriteOne
  \/ WriteDone
  \/ Rerun

vars == <<runVars, call, ret>>

\* No function call is being verified during a run.
NoCall == [fn |-> "none"]

Init ==
  /\ InitRun
  /\ call = NoCall
  /\ ret = None

Next == NextRun

Spec == Init /\ [][Next]_vars

\* No run takes place while a function is being verified.
NoRun == StartRun(<<>>, 1, TRUE, [files |-> <<>>, dirs |-> {}], "none")

(***************************************************************************)
(* SpecClassify: verify_test_case_simple applied to a test case, a rule    *)
(* table and an optional snapshot collection.                              *)
(***************************************************************************)
TEST_RULE == "test-rule"

\* The rule tables of the classification: the one rule fires on a set of samples.
ClassifyRules == {[r \in {TEST_RULE} |-> [id |-> TEST_RULE, fires |-> f]] : f \in SUBSET Samples}

ClassifyCases ==
  [id : {TEST_RULE, "no-such-rule"},
   valid : SeqsUpTo(Samples, MaxSamples), invalid : SeqsUpTo(Samples, MaxSamples)]

\* The snapshots a slot can hold: a stale one, or what a rule generates.
StoredSnapshots(rules) ==
  {StaleSnapshot} \cup {Generate(rules[TEST_RULE], sample) : sample \in Samples}

\* TestSnapshots: a stored snapshot for some of the invalid-sample slots.
PartialMaps(D, V) == UNION {[X -> V] : X \in SUBSET D}

ClassifySnapshots(rules) ==
  {None, Some(<<>>)}
    \cup {Some([r \in {TEST_RULE} |-> m]) :
            m \in PartialMaps(1..MaxSamples, StoredSnapshots(rules))}

InitClassify ==
  /\ NoRun
  /\ \E tc \in ClassifyCases, rules \in ClassifyRules :
       \E snaps \in ClassifySnapshots(rules) :
         call = [fn |-> "verify_test_case_simple",
                 test_case |-> tc, rules |-> rules, snapshots |-> snaps]
  /\ ret = None

CallVerifyTestCaseSimple ==
  /\ call.fn = "verify_test_case_simple"
  /\ ret = None
  /\ ret' = Some(verify_test_case_simple(call.test_case, call.rules, call.snapshots))
  /\ UNCHANGED <<call, runVars>>

NextClassify == CallVerifyTestCaseSimple

SpecClassify == InitClassify /\ [][NextClassify]_vars

(***************************************************************************)
(* rewriters.rs: the text of a document and its codec. A string is a       *)
(* sequence of characters, the content a sequence of bytes; "é" takes two  *)
(* bytes, every other character of the model one.                          *)
(***************************************************************************)
Utf8(ch) == IF ch = "é" THEN <<"xC3", "xA9">> ELSE <<ch>>

\* Content::decode_str: the bytes of a string
decode_str(str) == Flatten([i \in 1..Len(str) |-> Utf8(str[i])])

\* Content::encode_bytes (String::from_utf8_lossy): the string of some bytes,
\* an ill-formed byte becoming the replacement character
RECURSIVE encode_bytes(_)
encode_bytes(bytes) ==
  IF Len(bytes) = 0 THEN <<>>
  ELSE IF Head(bytes) = "xC3" /\ Len(bytes) >= 2 /\ bytes[2] = "xA9"
       THEN <<"é">> \o encode_bytes(SubSeq(bytes, 3, Len(bytes)))
  ELSE IF Head(bytes) \in {"xC3", "xA9"}
       THEN <<"uFFFD">> \o encode_bytes(Tail(bytes))
  ELSE <<Head(bytes)>> \o encode_bytes(Tail(bytes))

(***************************************************************************)
(* The document of the model, "t(1,u(2))", and its syntax tree.            *)
(*   1 call [0,9)                                                          *)
(*     2 identifier "t" [0,1)                                              *)
(*     3 arguments [1,9)                                                   *)
(*       4 number "1" [2,3)                                                *)
(*       5 call [4,8)                                                      *)
(*         6 identifier "u" [4,5)                                          *)
(*         7 arguments [5,8)                                               *)
(*           8 number "2" [6,7)                                            *)
(***************************************************************************)
DocSource == <<"t", "(", "1", ",", "u", "(", "2", ")", ")">>

NodeKind == <<"call", "identifier", "arguments", "number",
              "call", "identifier", "arguments", "number">>
NodeStart == <<0, 0, 1, 2, 4, 4, 5, 6>>
NodeEnd == <<9, 1, 9, 3, 8, 5, 8, 7>>
NodeChildren == <<(<<2, 3>>), <<>>, (<<4, 5>>), <<>>, (<<6, 7>>), <<>>, (<<8>>), <<>> >>

\* Content::get_range: the bytes [from, to) of the document
get_range(from, to) == SubSeq(DocSource, from + 1, to)

\* Node::dfs: the node, then its descendants, in pre-order
RECURSIVE dfs(_)
dfs(node) ==
  <<node>> \o Flatten([i \in 1..Len(NodeChildren[node]) |-> dfs(NodeChildren[node][i])])

\* The sub-rules the rule file declares (ctx.rewriters): each matches the
\* nodes of some kinds and has a fix.
SubRules ==
  [num   |-> [kinds |-> {"number"},     fix |-> <<"N">>],
   ident |-> [kinds |-> {"identifier"}, fix |-> <<"I", "D">>],
   cll   |-> [kinds |-> {"call"},       fix |-> <<"C">>]]

\* RuleCore::match_node
match_node(rule, node) == NodeKind[node] \in rule.kinds

\* NodeMatch::make_edit: the matched node is replaced by the rule's fix
NodeEdit(rule, node) ==
  [position |-> NodeStart[node],
   deleted_length |-> NodeEnd[node] - NodeStart[node],
   inserted_text |-> decode_str(rule.fix)]

(***************************************************************************)
(* Metavariables and the match environment.                                *)
(***************************************************************************)
MetaChar == "$"

IsValidMetaVarChar(ch) == ch \in {"A", "B", "R", "_"}

\* meta_var.rs extract_meta_var: Option<MetaVariable>
extract_meta_var(src) ==
  LET ellipsis == <<MetaChar, MetaChar, MetaChar>>
      valid(t) == \A i \in 1..Len(t) : IsValidMetaVarChar(t[i])
  IN IF src = ellipsis THEN Some([kind |-> "Multiple", name |-> <<>>])
     ELSE IF Len(src) > 3 /\ SubSeq(src, 1, 3) = ellipsis
          THEN LET trimmed == SubSeq(src, 4, Len(src))
               IN IF ~valid(trimmed) THEN None
                  ELSE IF Head(trimmed) = "_"
                       THEN Some([kind |-> "Multiple", name |-> <<>>])
                       ELSE Some([kind |-> "MultiCapture", name |-> trimmed])
     ELSE IF Len(src) = 0 \/ Head(src) # MetaChar THEN None
     ELSE LET rest == Tail(src)
              trimmed == IF Len(rest) > 0 /\ Head(rest) = MetaChar
                         THEN Tail(rest) ELSE rest
          IN IF Len(trimmed) = 0 \/ ~valid(trimmed) THEN None
             ELSE IF Head(trimmed) = "_"
                  THEN Some([kind |-> "Dropped", name |-> <<>>])
                  ELSE Some([kind |-> "Capture", name |-> trimmed])

\* Language::pre_process_pattern: "$" is the expando character of the
\* language of the model (TypeScript), whose patterns are kept as written
pre_process_pattern(src) == src

\* MetaVarEnv: env.single maps a name to its node, env.multi to its nodes
get_match(env, name) ==
  IF name \in DOMAIN env.single THEN Some(env.single[name]) ELSE None

get_multiple_matches(env, name) ==
  IF name \in DOMAIN env.multi THEN env.multi[name] ELSE <<>>

\* rewriters.rs lines 20-32
get_nodes_from_env(var, env) ==
  CASE var.kind = "MultiCapture" -> get_multiple_matches(env, var.name)
    [] var.kind = "Capture" ->
         IF IsSome(get_match(env, var.name))
         THEN <<Unwrap(get_match(env, var.name))>>
         ELSE <<>>
    [] OTHER -> <<>>

\* MetaVarEnv::get_var_bytes: the text of the capture; for a multi-capture
\* the text from the start of its first node to the end of its last
get_var_bytes(env, var) ==
  CASE var.kind = "Capture" ->
         IF IsSome(get_match(env, var.name))
         THEN LET node == Unwrap(get_match(env, var.name))
              IN Some(get_range(NodeStart[node], NodeEnd[node]))
         ELSE None
    [] var.kind = "MultiCapture" ->
         LET nodes == get_multiple_matches(env, var.name)
         IN IF Len(nodes) = 0 THEN None
            ELSE Some(get_range(NodeStart[nodes[1]], NodeEnd[nodes[Len(nodes)]]))
    [] OTHER -> None

(***************************************************************************)
(* rewriters.rs: the edits and their merge.                                *)
(***************************************************************************)
\* lines 85-90: the rules tried in order on one visited node
RECURSIVE RulesOnNode(_, _)
RulesOnNode(child, rules) ==
  IF Len(rules) = 0 THEN <<>>
  ELSE (IF match_node(Head(rules), child)
        THEN <<NodeEdit(Head(rules), child)>> ELSE <<>>)
       \o RulesOnNode(child, Tail(rules))

\* lines 82-93
replace_one(node, rules) ==
  LET visited == dfs(node)
  IN Flatten([i \in 1..Len(visited) |-> RulesOnNode(visited[i], rules)])

\* The captured nodes taken from the last to the first.
find_and_make_edits_last_node_first(nodes, rules) ==
  Flatten([i \in 1..Len(nodes) |-> replace_one(nodes[Len(nodes) + 1 - i], rules)])

\* lines 72-80
find_and_make_edits(nodes, rules) ==
  Flatten([i \in 1..Len(nodes) |-> replace_one(nodes[i], rules)])

\* The outcome of a call that can panic.
Panic == [panic |-> TRUE, value |-> <<>>]
Returns(v) == [panic |-> FALSE, value |-> v]

\* The merge with an edit that starts before the cursor skipped.
RECURSIVE MakeEditSkipsOverlapping(_, _, _, _, _)
MakeEditSkipsOverlapping(old_content, edits, offset, start, new_content) ==
  IF Len(edits) = 0
  THEN IF start > Len(old_content) THEN Panic
       ELSE Returns(new_content \o SubSeq(old_content, start + 1, Len(old_content)))
  ELSE LET edit == Head(edits)
           pos == edit.position - offset
       IN IF edit.position < offset THEN Panic
          ELSE IF start > pos
          THEN MakeEditSkipsOverlapping(old_content, Tail(edits), offset, start,
                                        new_content)
          ELSE IF pos > Len(old_content) THEN Panic
          ELSE MakeEditSkipsOverlapping(old_content, Tail(edits), offset,
                            pos + edit.deleted_length,
                            new_content \o SubSeq(old_content, start + 1, pos)
                                        \o edit.inserted_text)

\* lines 102-110. A slice old_content[from..to] panics unless
\* from <= to <= len. edit.position - offset underflows when the edit starts
\* before the offset: a debug build panics on the subtraction, a release
\* build wraps to a value far beyond the content, and the slice panics.
RECURSIVE MakeEditLoop(_, _, _, _, _)
MakeEditLoop(old_content, edits, offset, start, new_content) ==
  IF Len(edits) = 0
  THEN IF start > Len(old_content) THEN Panic
       ELSE Returns(new_content \o SubSeq(old_content, start + 1, Len(old_content)))
  ELSE LET edit == Head(edits)
           pos == edit.position - offset
       IN IF edit.position < offset THEN Panic
          ELSE IF start > pos \/ pos > Len(old_content) THEN Panic
          ELSE MakeEditLoop(old_content, Tail(edits), offset,
                            pos + edit.deleted_length,
                            new_content \o SubSeq(old_content, start + 1, pos)
                                        \o edit.inserted_text)

\* Mutant of make_edit: the cursor does not skip the deleted bytes.
RECURSIVE MakeEditKeepsDeleted(_, _, _, _, _)
MakeEditKeepsDeleted(old_content, edits, offset, start, new_content) ==
  IF Len(edits) = 0
  THEN IF start > Len(old_content) THEN Panic
       ELSE Returns(new_content \o SubSeq(old_content, start + 1, Len(old_content)))
  ELSE LET edit == Head(edits)
           pos == edit.position - offset
       IN IF edit.position < offset THEN Panic
          ELSE IF start > pos \/ pos > Len(old_content) THEN Panic
          ELSE MakeEditKeepsDeleted(old_content, Tail(edits), offset, pos,
                            new_content \o SubSeq(old_content, start + 1, pos)
                                        \o edit.inserted_text)

make_edit_keeps_deleted(old_content, edits, offset) ==
  MakeEditKeepsDeleted(old_content, edits, offset, 0, <<>>)

\* lines 95-111
make_edit(old_content, edits, offset) ==
  MakeEditLoop(old_content, edits, offset, 0, <<>>)

\* Mutant of JoinEdits: only the first edit is emitted.
JoinEditsFirstOnly(edits, joiner) ==
  IF Len(edits) = 0 THEN <<>> ELSE Head(edits).inserted_text

\* lines 51-63: the inserted texts of the edits, the joiner between them
RECURSIVE JoinRest(_, _)
JoinRest(edits, joiner) ==
  IF Len(edits) = 0 THEN <<>>
  ELSE joiner \o Head(edits).inserted_text \o JoinRest(Tail(edits), joiner)

JoinEdits(edits, joiner) ==
  IF Len(edits) = 0 THEN <<>>
  ELSE Head(edits).inserted_text \o JoinRest(Tail(edits), decode_str(joiner))

\* lines 44-48: the rewrites that are in the sub-rule table, in order
ResolveRewrites(rewrites, rewriters) ==
  LET known == SelectSeq(rewrites, LAMBDA id : id \in DOMAIN rewriters)
  IN [i \in 1..Len(known) |-> rewriters[known[i]]]

\* Rewriters::compute, lines 35-68: Option<String>, or a panic
compute(self, env, rewriters) ==
  LET source == pre_process_pattern(self.source)
      var == extract_meta_var(source)
  IN IF ~IsSome(var) THEN Returns(None)
     ELSE LET nodes == get_nodes_from_env(Unwrap(var), env)
          IN IF Len(nodes) = 0 THEN Returns(None)
             ELSE LET start == NodeStart[nodes[1]]
                      bytes == get_var_bytes(env, Unwrap(var))
                  IN IF ~IsSome(bytes) THEN Returns(None)
                     ELSE LET rules == ResolveRewrites(self.rewrites, rewriters)
                              edits == find_and_make_edits(nodes, rules)
                          IN IF IsSome(self.join_by)
                             THEN Returns(Some(encode_bytes(
                                    JoinEdits(edits, Unwrap(self.join_by)))))
                             ELSE LET rewritten == make_edit(Unwrap(bytes), edits, start)
                                  IN IF rewritten.panic THEN Panic
                                     ELSE Returns(Some(encode_bytes(rewritten.value)))

(***************************************************************************)
(* SpecRewrite: make_edit applied to a content, an edit list and an        *)
(* offset, and Rewriters::compute applied to a transform and a match       *)
(* environment.                                                            *)
(***************************************************************************)
Letters == <<"a", "b", "c", "d", "e", "f", "g", "h">>

Contents == {SubSeq(Letters, 1, n) : n \in 0..MaxLen}

Edits ==
  [position : 0..(MaxLen + 1), deleted_length : 0..2,
   inserted_text : {<<>>, <<"X", "Y">>}]

MakeEditCalls ==
  [fn : {"make_edit"}, old_content : Contents,
   edits : SeqsUpTo(Edits, MaxEdits), offset : {0, 1}]

Sources ==
  { <<"$", "A">>, <<"$", "B">>, <<"$", "$", "$", "R">>, <<"$", "$", "$">>,
    <<"$", "_">>, <<"A">>, <<"$", "a">> }

\* The captures of a match: $A is one node, $$$R the arguments of a call.
Envs ==
  [single : {<<>>} \cup {[n \in {<<"A">>} |-> node] : node \in {1, 4, 5}},
   multi : {<<>>} \cup {[n \in {<<"R">>} |-> nodes] : nodes \in {<<>>, <<4>>, <<4, 5>>}}]

RewriteIds == {"num", "ident", "cll", "no-such-rewriter"}

ComputeCalls ==
  [fn : {"compute"},
   self : [source : Sources,
           rewrites : SeqsUpTo(RewriteIds, MaxRewrites),
           join_by : {None, Some(<<>>), Some(<<",", "é">>)}],
   env : Envs]

InitRewrite ==
  /\ NoRun
  /\ call \in MakeEditCalls \cup ComputeCalls
  /\ ret = None

CallMakeEdit ==
  /\ call.fn = "make_edit"
  /\ ret = None
  /\ ret' = Some(make_edit(call.old_content, call.edits, call.offset))
  /\ UNCHANGED <<call, runVars>>

CallCompute ==
  /\ call.fn = "compute"
  /\ ret = None
  /\ ret' = Some(compute(call.self, call.env, SubRules))
  /\ UNCHANGED <<call, runVars>>

NextRewrite == CallMakeEdit \/ CallCompute

SpecRewrite == InitRewrite /\ [][NextRewrite]_vars

(***************************************************************************)
(* Properties of the run (specification Spec).                             *)
(***************************************************************************)
\* The classification of the cases one by one, in their order, on one thread.
RECURSIVE SequentialCollect(_)
SequentialCollect(cases) ==
  IF Len(cases) = 0 THEN <<>>
  ELSE LET r == verify_test_case_simple(Head(cases), RuleTable, snapshots)
       IN (IF IsSome(r) THEN <<Unwrap(r)>> ELSE <<>>) \o SequentialCollect(Tail(cases))

ParallelCollectReturned == pc \notin {"before_report", "spawn", "join"}

\* C1: whatever the number of cases, the worker cap and the interleaving of
\* the workers, the list parallel_collect returns is the list a single thread
\* gets by classifying the cases one by one in their original order, None
\* results removed; while the workers are being joined the list built so far
\* is that list for the chunks already joined.
C1_ParallelEqualsSequential ==
  /\ ParallelCollectReturned => results = SequentialCollect(test_cases)
  /\ pc = "join" =>
       results = SequentialCollect(SubSeq(test_cases, 1,
                                          Min(joined * chunk_size, Len(test_cases))))

\* Three workers ran, the first line a worker emitted is not the first case's
\* (the workers finished out of order) and a None result was dropped.
C1_Witness ==
  /\ pc = "after_report"
  /\ NumChunks = 3
  /\ Len(results) = 2
  /\ output[2][2] # test_cases[1].id

HasRule(test_case) == test_case.id \in DOMAIN RuleTable

Ids(rs) == [i \in 1..Len(rs) |-> rs[i].id]

\* Inputs of verify_test_case_simple for a rule id that is not in the table.
UnknownRuleCases ==
  [id : {"ghost", "no-such-rule"},
   valid : SeqsUpTo(Samples, MaxSamples), invalid : SeqsUpTo(Samples, MaxSamples)]

SnapshotArguments ==
  {None, Some(<<>>), Some([ghost |-> <<StaleSnapshot>>]),
   Some([r1 |-> <<StaleSnapshot>>])}

\* C3: a test case whose id is not in the rule table yields no CaseResult,
\* whatever its samples and with or without snapshots; the results handed to
\* after_report hold one CaseResult per case whose rule exists, in order, and
\* none for the others; and a run whose only non-passing candidates are
\* unknown-rule cases ends with Ok.
C3_UnknownRuleYieldsNoResult ==
  /\ pc = "before_report" =>
       \A tc \in UnknownRuleCases, s \in SnapshotArguments :
         verify_test_case_simple(tc, RuleTable, s) = None
  /\ \A k \in 1..NumChunks :
       (workers[k].pc \in {"lock", "report"} /\ ~HasRule(Chunk(k)[workers[k].i]))
         => workers[k].cur = None
  /\ ParallelCollectReturned =>
       Ids(results) = Ids(SelectSeq(test_cases, HasRule))
  /\ (pc = "done" /\ \A i \in 1..Len(test_cases) : ~HasRule(test_cases[i]))
       => result = Some(Ok)

\* A run with an unknown-rule case and a case whose rule exists has ended
\* with Ok; the unknown-rule case was reported as not configured.
C3_Witness ==
  /\ pc = "done"
  /\ result = Some(Ok)
  /\ Len(results) = 1
  /\ \E i \in 1..Len(output) : output[i] = <<"Configuration not found!", "ghost">>

AllPassing(rs) ==
  \A r \in 1..Len(rs) : \A i \in 1..Len(rs[r].cases) :
    rs[r].cases[i].kind \in {"Validated", "Reported"}

C6_UpdateNoneLeavesStore ==
  action = Some(NeedUpdate) =>
    /\ pc # "write_merged_to_disk"
    /\ files = store0.files
    /\ dirs = store0.dirs

\* A failing run with stored snapshots that differ has ended after the
\* reporter answered "update none".
C6_Witness ==
  /\ pc = "done"
  /\ action = Some(NeedUpdate)
  /\ IsSome(snapshots)
  /\ \E r \in 1..Len(results) : \E i \in 1..Len(results[r].cases) :
       results[r].cases[i].kind = "Wrong"

HasKind(rs, kinds) ==
  \E r \in 1..Len(rs) : \E i \in 1..Len(rs[r].cases) : rs[r].cases[i].kind \in kinds

\* C7 as stated: the run that follows an accepted and persisted "update all"
\* is all-passing.
C7_RerunAllPassing ==
  (prev = "updated_all" /\ pc = "done") => result = Some(Ok)

\* C7, amended: in the run that follows an accepted and persisted "update
\* all" no sample has status Wrong, in the results or in any worker; that run
\* is all-passing exactly when no sample is Missing or Noisy.
C7_RerunHasNoWrong ==
  prev = "updated_all" =>
    /\ ~HasKind(results, {"Wrong"})
    /\ \A k \in 1..NumChunks :
         /\ ~HasKind(workers[k].out, {"Wrong"})
         /\ ~HasKind(workers[k].cur, {"Wrong"})
    /\ pc = "done" => (result = Some(Ok) <=> ~HasKind(results, {"Missing", "Noisy"}))

\* The run after an "update all" has ended with Ok and compared a stored
\* snapshot.
C7_Witness ==
  /\ prev = "updated_all"
  /\ pc = "done"
  /\ result = Some(Ok)
  /\ HasKind(results, {"Reported"})
  /\ files # <<>>

(***************************************************************************)
(* Properties of the classification (specification SpecClassify).          *)
(***************************************************************************)
Returned == call.fn # "none" /\ ret # None

\* The CaseResult returned, when the rule of the test case exists.
Classified ==
  /\ call.fn = "verify_test_case_simple"
  /\ Returned
  /\ call.test_case.id \in DOMAIN call.rules

CaseStatuses == Unwrap(Unwrap(ret)).cases

Fires(sample) == sample \in call.rules[call.test_case.id].fires

NumValid == Len(call.test_case.valid)
NumInvalid == Len(call.test_case.invalid)

\* C2: classified without snapshots, a test case gets one status per sample,
\* the valid samples first and then the invalid ones: a valid sample is
\* Validated if the rule does not fire on it and Noisy(sample) if it fires,
\* an invalid sample is Missing(sample) if the rule does not fire on it and
\* Reported if it fires.
C2_StatusPerSampleWithoutSnapshots ==
  (Classified /\ call.snapshots = None) =>
    /\ IsSome(Unwrap(ret))
    /\ Unwrap(Unwrap(ret)).id = call.test_case.id
    /\ Len(CaseStatuses) = NumValid + NumInvalid
    /\ \A i \in 1..NumValid :
         CaseStatuses[i] = IF Fires(call.test_case.valid[i])
                           THEN [kind |-> "Noisy", source |-> call.test_case.valid[i]]
                           ELSE [kind |-> "Validated"]
    /\ \A j \in 1..NumInvalid :
         CaseStatuses[NumValid + j] =
           IF Fires(call.test_case.invalid[j])
           THEN [kind |-> "Reported"]
           ELSE [kind |-> "Missing", source |-> call.test_case.invalid[j]]

\* A case with two valid and two invalid samples, the rule firing on one
\* sample of each kind, is classified without snapshots: all four statuses.
C2_Witness ==
  /\ Classified
  /\ call.snapshots = None
  /\ {CaseStatuses[i].kind : i \in 1..Len(CaseStatuses)} =
       {"Validated", "Noisy", "Missing", "Reported"}

\* The stored snapshot of invalid sample j of the call, if there is one.
StoredSnapshot(j) ==
  IF /\ IsSome(call.snapshots)
     /\ call.test_case.id \in DOMAIN Unwrap(call.snapshots)
     /\ j \in DOMAIN Unwrap(call.snapshots)[call.test_case.id]
  THEN Some(Unwrap(call.snapshots)[call.test_case.id][j])
  ELSE None

Computed(j) == Generate(call.rules[call.test_case.id], call.test_case.invalid[j])

\* C5 as stated: an invalid sample on which the rule fires is Reported when
\* snapshot testing is disabled or no snapshot exists for its index (also
\* when the collection has no entry for the rule id), and Wrong only when a
\* stored snapshot exists and differs from the computed output.
C5_NoSnapshotIsReported ==
  Classified =>
    \A j \in 1..NumInvalid :
      Fires(call.test_case.invalid[j]) =>
        /\ (call.snapshots = None \/ StoredSnapshot(j) = None)
             => CaseStatuses[NumValid + j].kind = "Reported"
        /\ CaseStatuses[NumValid + j].kind = "Wrong"
             => (StoredSnapshot(j) # None /\ Unwrap(StoredSnapshot(j)) # Computed(j))

\* C5, amended: an invalid sample on which the rule fires is Reported when
\* snapshot testing is disabled, or when a stored snapshot exists and equals
\* the computed output; with snapshot testing enabled it is Wrong, carrying
\* the computed output, when no snapshot is stored for it (no entry for the
\* rule id, or no snapshot in its slot) and when the stored one differs.
C5_MissingSnapshotIsWrong ==
  Classified =>
    \A j \in 1..NumInvalid :
      Fires(call.test_case.invalid[j]) =>
        CaseStatuses[NumValid + j] =
          IF call.snapshots = None THEN [kind |-> "Reported"]
          ELSE IF StoredSnapshot(j) = None
               THEN [kind |-> "Wrong", index |-> j, actual |-> Computed(j),
                     expected |-> None]
          ELSE IF Unwrap(StoredSnapshot(j)) = Computed(j) THEN [kind |-> "Reported"]
          ELSE [kind |-> "Wrong", index |-> j, actual |-> Computed(j),
                expected |-> StoredSnapshot(j)]

\* The rule fires on an invalid sample, snapshot testing is enabled and the
\* collection is empty: the status is Wrong with nothing expected.
C5_Witness ==
  /\ Classified
  /\ call.snapshots = Some(<<>>)
  /\ NumInvalid = 1
  /\ Fires(call.test_case.invalid[1])
  /\ CaseStatuses[NumValid + 1].kind = "Wrong"
  /\ CaseStatuses[NumValid + 1].expected = None

(***************************************************************************)
(* Properties of the rewrite engine (specification SpecRewrite).           *)
(***************************************************************************)
EditEnd(edit) == edit.position + edit.deleted_length

\* The edit list is ascending, non-overlapping and inside the anchored span.
WellFormedEdits(edits, offset, len) ==
  /\ \A i \in 1..Len(edits) :
       edits[i].position >= offset /\ EditEnd(edits[i]) <= offset + len
  /\ \A i \in 1..(Len(edits) - 1) : EditEnd(edits[i]) <= edits[i + 1].position

\* One edit applied to a content on its own.
ReplaceRange(content, edit, offset) ==
  SubSeq(content, 1, edit.position - offset)
    \o edit.inserted_text
    \o SubSeq(content, EditEnd(edit) - offset + 1, Len(content))

\* The edits applied one at a time, the last one first, so that the
\* positions of the earlier ones are not shifted.
RECURSIVE ReplaceFromLast(_, _, _)
ReplaceFromLast(content, edits, offset) ==
  IF Len(edits) = 0 THEN content
  ELSE ReplaceFromLast(ReplaceRange(content, edits[Len(edits)], offset),
                       SubSeq(edits, 1, Len(edits) - 1), offset)

RECURSIVE SumDeleted(_)
SumDeleted(edits) ==
  IF Len(edits) = 0 THEN 0
  ELSE Head(edits).deleted_length + SumDeleted(Tail(edits))

RECURSIVE SumInserted(_)
SumInserted(edits) ==
  IF Len(edits) = 0 THEN 0
  ELSE Len(Head(edits).inserted_text) + SumInserted(Tail(edits))

\* The text of a captured node with every descendant of the given kinds
\* replaced by the fix, byte by byte.
KindsReplaced(node, kinds, fix) ==
  LET hit(p) == \E n \in 1..Len(NodeKind) :
                  NodeKind[n] \in kinds /\ NodeStart[n] <= p /\ p < NodeEnd[n]
      first(p) == \E n \in 1..Len(NodeKind) : NodeKind[n] \in kinds /\ NodeStart[n] = p
  IN Flatten([i \in 1..(NodeEnd[node] - NodeStart[node]) |->
                LET p == NodeStart[node] + i - 1
                IN IF first(p) THEN fix ELSE IF hit(p) THEN <<>> ELSE <<DocSource[p + 1]>>])

\* C8: for an edit list that is ascending, non-overlapping and inside the
\* anchored span, make_edit returns the original bytes with each deleted
\* range replaced by its inserted text and every other byte kept in order,
\* so the result has len(original) - sum(deleted) + sum(inserted) bytes; and
\* compute with one sub-rule that matches several disjoint descendants of the
\* captured node replaces each of them.
C8_MakeEditSplices ==
  /\ (call.fn = "make_edit" /\ ret # None
        /\ WellFormedEdits(call.edits, call.offset, Len(call.old_content))) =>
       /\ Unwrap(ret) = [panic |-> FALSE,
                         value |-> ReplaceFromLast(call.old_content, call.edits,
                                                   call.offset)]
       /\ Len(Unwrap(ret).value) =
            Len(call.old_content) - SumDeleted(call.edits)
              + SumInserted(call.edits)
  /\ (call.fn = "compute" /\ ret # None /\ call.self.source = <<"$", "A">>
        /\ call.self.join_by = None /\ <<"A">> \in DOMAIN call.env.single) =>
       \A id \in {"num", "ident"} :
         call.self.rewrites = <<id>> =>
           Unwrap(ret) = [panic |-> FALSE,
                          value |-> Some(KindsReplaced(call.env.single[<<"A">>],
                                                       SubRules[id].kinds,
                                                       SubRules[id].fix))]

\* Two edits with bytes kept before, between and after them have been merged
\* at a non-zero offset.
C8_Witness ==
  /\ call.fn = "make_edit"
  /\ ret # None
  /\ call.offset = 1
  /\ Len(call.edits) = 2
  /\ WellFormedEdits(call.edits, call.offset, Len(call.old_content))
  /\ call.edits[1].position > call.offset
  /\ EditEnd(call.edits[1]) < call.edits[2].position
  /\ EditEnd(call.edits[2]) < call.offset + Len(call.old_content)
  /\ call.edits[1].deleted_length > 0
  /\ ~Unwrap(ret).panic

\* compute has returned for a join_by transform whose metavariable is bound.
Joined ==
  /\ call.fn = "compute"
  /\ ret # None
  /\ IsSome(call.self.join_by)
  /\ IsSome(extract_meta_var(call.self.source))
  /\ Len(get_nodes_from_env(Unwrap(extract_meta_var(call.self.source)), call.env)) > 0

Captures == get_nodes_from_env(Unwrap(extract_meta_var(call.self.source)), call.env)

\* The fixes of the sub-rules of the rewrites list that match a node, in
\* list order; an id that is not in the table matches nothing.
FixesOn(node, rewrites) ==
  LET ids == SelectSeq(rewrites,
               LAMBDA id : id \in DOMAIN SubRules /\ NodeKind[node] \in SubRules[id].kinds)
  IN [k \in 1..Len(ids) |-> SubRules[ids[k]].fix]

\* The chunks one capture contributes: the fixes on each node of its
\* depth-first traversal.
ChunksOf(capture, rewrites) ==
  Flatten([j \in 1..Len(dfs(capture)) |-> FixesOn(dfs(capture)[j], rewrites)])

RECURSIVE JoinStrings(_, _)
JoinStrings(chunks, sep) ==
  IF Len(chunks) = 0 THEN <<>>
  ELSE IF Len(chunks) = 1 THEN Head(chunks)
  ELSE Head(chunks) \o sep \o JoinStrings(Tail(chunks), sep)

\* C9 as stated: with join_by the result holds one chunk per captured node,
\* in capture order: the inserted text of the first edit produced for that
\* capture, the join_by string between consecutive chunks; later edits of
\* the same capture are not emitted.
C9_OneChunkPerCapture ==
  (Joined /\ \A i \in 1..Len(Captures) : Len(ChunksOf(Captures[i], call.self.rewrites)) > 0)
    => Unwrap(ret) =
         [panic |-> FALSE,
          value |-> Some(JoinStrings(
                      [i \in 1..Len(Captures) |->
                         Head(ChunksOf(Captures[i], call.self.rewrites))],
                      Unwrap(call.self.join_by)))]

\* C9, amended: with join_by the result holds one chunk per edit produced,
\* in production order (the captures in order, each traversed depth-first,
\* the sub-rules in list order on each node): the inserted text of every
\* edit, the join_by string between consecutive chunks; a capture gives as
\* many chunks as edits were produced for it, possibly none, and no original
\* bytes are spliced in.
C9_OneChunkPerEdit ==
  Joined =>
    Unwrap(ret) =
      [panic |-> FALSE,
       value |-> Some(JoinStrings(
                   Flatten([i \in 1..Len(Captures) |->
                              ChunksOf(Captures[i], call.self.rewrites)]),
                   Unwrap(call.self.join_by)))]

\* Two captures, the second with two edits of one sub-rule in it, have been
\* joined: three chunks.
C9_Witness ==
  /\ Joined
  /\ Len(Captures) = 2
  /\ call.self.rewrites = <<"num">>
  /\ call.self.join_by = Some(<<",", "é">>)
  /\ Unwrap(ret).value = Some(<<"N", ",", "é", "N">>)

KnownRewrites(rewrites) == SelectSeq(rewrites, LAMBDA id : id \in DOMAIN SubRules)

\* C10: compute returns no value exactly when the source pattern yields no
\* metavariable or no node is bound to it; whenever a node is bound it
\* returns a string; and rewrite ids that are not in the sub-rule table
\* change nothing: the result is that of the rewrites list without them.
C10_ComputeReturnsString ==
  (call.fn = "compute" /\ ret # None) =>
    LET var == extract_meta_var(call.self.source)
        bound == IsSome(var) /\ Len(get_nodes_from_env(Unwrap(var), call.env)) > 0
    IN /\ ~bound => Unwrap(ret) = [panic |-> FALSE, value |-> None]
       /\ bound => (~Unwrap(ret).panic /\ IsSome(Unwrap(ret).value))
       /\ Unwrap(ret) =
            compute([call.self EXCEPT !.rewrites = KnownRewrites(call.self.rewrites)],
                    call.env, SubRules)

(***************************************************************************)
(* Properties of the chunking and the scheduling of a run (specification   *)
(* Spec).                                                                  *)
(***************************************************************************)
\* n / w rounded up
Ceil(n, w) == (n + w - 1) \div w

\* C11 as stated: the chunk size is ceil(n / w) for n cases and
\* w = min(available parallelism, 12) workers.
C11_ChunkSizeIsCeil == chunk_size = Ceil(Len(test_cases), cpu_count)

\* n / w rounded down, plus one: ceil(n / w) when w does not divide n, one
\* more when it does.
QuotientPlusOne(n, w) == IF n % w = 0 THEN Ceil(n, w) + 1 ELSE Ceil(n, w)

\* The chunk size of every list size and parallelism up to the bounds.
ChunkSizesAreQuotientsPlusOne ==
  \A n \in 0..MaxListSize, cpus \in 1..MaxParallelism :
    ChunkSize(n, cpus) = QuotientPlusOne(n, Min(cpus, WorkerCap))

\* C11, amended: the chunk size is floor(n / w) + 1 for n cases and
\* w = min(available parallelism, 12) workers: ceil(n / w) when w does not
\* divide n and ceil(n / w) + 1 when it does (1 for an empty list); this holds
\* of the run's list and of every list size and parallelism up to the bounds,
\* and the chunks the workers get are contiguous pieces of that size, the
\* last one possibly shorter, that make up the list.
C11_ChunkSizeIsQuotientPlusOne ==
  /\ chunk_size = QuotientPlusOne(Len(test_cases), cpu_count)
  /\ ChunkSizesAreQuotientsPlusOne
  /\ pc = "spawn" =>
       /\ Flatten([k \in 1..NumChunks |-> Chunk(k)]) = test_cases
       /\ \A k \in 1..NumChunks :
            /\ Len(Chunk(k)) >= 1
            /\ k < NumChunks => Len(Chunk(k)) = chunk_size

\* Two cases on two workers: the chunk size is 2, not ceil(2 / 2) = 1, and
\* the one worker that was started has reported both cases.
C11_Witness ==
  /\ pc = "join"
  /\ Len(test_cases) = 2
  /\ cpu_count = 2
  /\ spawned = 1
  /\ workers[1].pc = "done"
  /\ Len(output) = 3

Started == {k \in 1..Len(workers) : workers[k].pc # "unspawned"}

\* The number of chunks, one worker each, of every list size and parallelism
\* up to the bounds.
ChunksAtMostCap ==
  \A n \in 0..MaxListSize, cpus \in 1..MaxParallelism :
    /\ NumChunksOf(n, cpus) <= Min(cpus, WorkerCap)
    /\ NumChunksOf(n, cpus) <= WorkerCap
    /\ ChunkSize(n, cpus) >= 1

\* C12: in every state of a run the number of worker threads started is at
\* most min(available parallelism, 12), hence at most 12; the same holds of
\* the number of chunks of every list size and parallelism up to the bounds;
\* the chunk size is at least 1, also for an empty list, for which no worker
\* is started, parallel_collect returns the empty list and the run ends
\* without failure.
C12_WorkersAtMostCap ==
  /\ spawned = Cardinality(Started)
  /\ spawned <= Min(num_cpus, WorkerCap)
  /\ spawned <= WorkerCap
  /\ chunk_size >= 1
  /\ ChunksAtMostCap
  /\ Len(test_cases) = 0 =>
       /\ spawned = 0
       /\ workers = <<>>
       /\ results = <<>>
       /\ pc = "done" => result = Some(Ok)

\* A machine with more cores than the cap: three workers were started for
\* three cases and all of them are running.
C12_Witness ==
  /\ num_cpus > WorkerCap
  /\ cpu_count = WorkerCap
  /\ pc = "join"
  /\ spawned = 3
  /\ \A k \in 1..3 : workers[k].pc \in {"classify", "lock", "report"}

\* The threads that are inside a reporter operation: a worker emitting the
\* line of its case, the coordinating thread from after_report on.
InReporter ==
  {k \in 1..NumChunks : workers[k].pc = "report"}
    \cup (IF pc \in {"after_report", "report_failed_cases", "collect_snapshot_action"}
          THEN {MainThread} ELSE {})

\* C13: at most one thread is inside a reporter operation, and it holds the
\* reporter lock; a worker that holds the lock has finished the
\* classification of its current case and has not started the next one: no
\* worker that is classifying, or waiting for the lock, holds it.
C13_LockDiscipline ==
  /\ Cardinality(InReporter) <= 1
  /\ \A t \in InReporter : lock = HeldBy(t)
  /\ \A k \in 1..NumChunks :
       /\ lock = HeldBy(k) => workers[k].pc = "report"
       /\ workers[k].pc \in {"classify", "lock"} => lock # HeldBy(k)
       /\ workers[k].pc = "report" =>
            workers[k].cur =
              verify_test_case_simple(Chunk(k)[workers[k].i], RuleTable, snapshots)
       /\ workers[k].pc = "classify" => workers[k].cur = None

\* One worker emits its line under the lock while a second one waits for
\* the lock and a third one classifies a case.
C13_Witness ==
  /\ NumChunks = 3
  /\ workers[1].pc = "report"
  /\ lock = HeldBy(1)
  /\ workers[2].pc = "lock"
  /\ workers[3].pc = "classify"

\* The positions of an entry in the reporter's output.
Positions(entry) == {i \in 1..Len(output) : output[i] = entry}

\* The line the reporter emits for a case.
LineOf(case) ==
  IF HasRule(case) THEN <<"report_case_summary", case.id>>
  ELSE <<"Configuration not found!", case.id>>

CaseLines ==
  {<<"report_case_summary", id>> : id \in DOMAIN RuleTable}
    \cup {<<"Configuration not found!", tc.id>> : tc \in TestCasePool}

\* Whether the g-th case of the list has been classified and reported: it
\* is the i-th case of the k-th chunk.
ProcessedAt(g) ==
  LET k == (g - 1) \div chunk_size + 1
      i == ((g - 1) % chunk_size) + 1
      w == workers[k]
  IN \/ w.pc \in {"done", "joined"}
     \/ w.pc \in {"classify", "lock", "report"} /\ i < w.i

\* C14: every test case is classified once, by the one worker whose chunk
\* holds it, and causes one reporter line, emitted under the lock: a summary
\* if its rule exists, otherwise a "Configuration not found" line and no
\* summary. At every moment the lines emitted are, as a multiset, the lines
\* of the cases processed so far, a running worker has collected one result
\* for each of its processed cases whose rule exists, in order, and once
\* the workers are joined every case is processed: the lines are those of
\* the whole list, one per case.
C14_EachCaseOnce ==
  /\ \A k \in 1..NumChunks :
       workers[k].pc \in {"classify", "lock", "report"} =>
         /\ workers[k].i \in 1..Len(Chunk(k))
         /\ Ids(workers[k].out) =
              Ids(SelectSeq(SubSeq(Chunk(k), 1, workers[k].i - 1), HasRule))
         /\ workers[k].pc = "report" => lock = HeldBy(k)
  /\ LET processed == {g \in 1..Len(test_cases) : ProcessedAt(g)}
     IN /\ Cardinality({i \in 1..Len(output) : output[i] \in CaseLines})
             = Cardinality(processed)
        /\ \A line \in {LineOf(test_cases[g]) : g \in processed} :
             Cardinality(Positions(line)) =
               Cardinality({g \in processed : LineOf(test_cases[g]) = line})
  /\ ParallelCollectReturned =>
       \A g \in 1..Len(test_cases) : ProcessedAt(g)

\* Three workers have been joined; the list holds the same case twice and a
\* case without a rule: two summaries of r1 and one "Configuration not
\* found" were emitted.
C14_Witness ==
  /\ pc = "after_report"
  /\ NumChunks = 3
  /\ Cardinality(Positions(<<"report_case_summary", "r1">>)) = 2
  /\ Cardinality(Positions(<<"Configuration not found!", "ghost">>)) = 1
  /\ Len(results) = 2

Emitted(entry) == Positions(entry) # {}

StoreChanged == files # store0.files \/ dirs # store0.dirs

\* What the coordinating thread has emitted, in order.
CoordinatorLog == SelectSeq(output, LAMBDA l : l \notin CaseLines)

IsPrefix(p, q) == Len(p) <= Len(q) /\ p = SubSeq(q, 1, Len(p))

FailingLog ==
  << <<"before_report">>, <<"after_report">>, <<"report_failed_cases">>,
     <<"collect_snapshot_action">> >>

PassingLog == << <<"before_report">>, <<"after_report">>, <<"message">> >>

\* C15: before_report is the first thing emitted, before every per-case
\* line; after_report, the listing of the failed cases and the request for a
\* snapshot action are emitted once each, in that order, after every
\* per-case line and only once every worker is joined; the snapshot store
\* changes only after the request for the action; on the passing path there
\* is no listing, no request and no change of the store.
C15_RunOrder ==
  /\ output # <<>> => output[1] = <<"before_report">>
  /\ IsPrefix(CoordinatorLog, FailingLog) \/ CoordinatorLog = PassingLog
  /\ Len(CoordinatorLog) >= 2 =>
       /\ joined = NumChunks
       /\ \A k \in 1..NumChunks : workers[k].pc = "joined"
       /\ \A j \in 1..Len(output) :
            output[j] \in CaseLines <=> (1 < j /\ j <= Len(test_cases) + 1)
  /\ Emitted(<<"after_report">>) <=> pc \notin {"before_report", "spawn", "join", "after_report"}
  /\ IsSome(action) <=> Emitted(<<"collect_snapshot_action">>)
  /\ pc = "write_merged_to_disk" => Emitted(<<"collect_snapshot_action">>)
  /\ StoreChanged =>
       /\ Emitted(<<"collect_snapshot_action">>)
       /\ pc \in {"write_merged_to_disk", "done"}
  /\ (pc = "done" /\ result # Some(Ok)) => CoordinatorLog = FailingLog
  /\ (pc = "done" /\ result = Some(Ok)) =>
       /\ CoordinatorLog = PassingLog
       /\ action = None
       /\ ~StoreChanged

\* A failing run of two workers has ended after its snapshot files were
\* written.
C15_Witness ==
  /\ pc = "done"
  /\ NumChunks >= 2
  /\ result = Some(TestFail)
  /\ files # store0.files
  /\ Emitted(<<"collect_snapshot_action">>)

FileOf(fs, id) == IF id \in DOMAIN fs THEN Some(fs[id]) ELSE None

\* C16: a run whose persistence stopped before every merged snapshot file
\* was written (some create_dir or write failed) ends with the I/O error, not
\* with the test failure, and the file of every rule id not yet written,
\* the failing one included, is as it was when the run started; a run that
\* ends with the I/O error had a snapshot collection and an action that
\* updates it, and a run that ends with the test failure left nothing
\* unwritten.
C16_IoErrorAborts ==
  /\ (pc = "done" /\ DOMAIN merged # {}) =>
       /\ result = Some(IoError)
       /\ \A id \in DOMAIN merged : FileOf(files, id) = FileOf(store0.files, id)
  /\ (pc = "done" /\ result = Some(IoError)) =>
       /\ DOMAIN merged # {}
       /\ IsSome(snapshots)
       /\ IsSome(action)
       /\ Unwrap(action) # NeedUpdate
       /\ ~AllPassing(results)
  /\ (pc = "done" /\ result = Some(TestFail)) => DOMAIN merged = {}

\* The first snapshot file was written, the write of the second one failed
\* after its directory had been created: the run ended with the I/O error.
C16_Witness ==
  /\ pc = "done"
  /\ result = Some(IoError)
  /\ Cardinality(DOMAIN merged) = 1
  /\ files # store0.files
  /\ \E id \in DOMAIN merged : id \notin DOMAIN files

(***************************************************************************)
(* Properties of the edit list and of the merge (specification             *)
(* SpecRewrite).                                                           *)
(***************************************************************************)
\* The edit list compute hands to the merge step for a transform and a match
\* environment whose metavariable is bound.
Bound(self, env) ==
  /\ IsSome(extract_meta_var(self.source))
  /\ Len(get_nodes_from_env(Unwrap(extract_meta_var(self.source)), env)) > 0

EditsOf(self, env) ==
  find_and_make_edits(get_nodes_from_env(Unwrap(extract_meta_var(self.source)), env),
                      ResolveRewrites(self.rewrites, SubRules))

\* Some edit has a smaller position than an edit before it.
Descends(edits) ==
  \E i \in 1..Len(edits), j \in 1..Len(edits) :
    i < j /\ edits[j].position < edits[i].position

\* Some edit starts before the end of the edit before it.
Overlaps(edits) ==
  \E i \in 1..(Len(edits) - 1) : edits[i + 1].position < EditEnd(edits[i])

\* C17 as stated: with more than one sub-rule, or more than one captured
\* node, find_and_make_edits can produce a list in which some edit has a
\* smaller position than an edit before it: some transform and some match
\* environment give such a list.
C17_EditsCanDescend ==
  call.fn = "compute" =>
    \E c \in ComputeCalls : Bound(c.self, c.env) /\ Descends(EditsOf(c.self, c.env))

\* C17, amended: the edit list handed to the merge step is non-decreasing in
\* position, whatever the number of sub-rules and of captured nodes: no edit
\* has a smaller position than an edit before it. The list is not guaranteed
\* to be strictly ascending or non-overlapping: two sub-rules that match one
\* visited node give two edits at one position, and a sub-rule that matches
\* a node and a node inside it gives an edit nested in the edit before it.
C17_EditsNeverDescend ==
  (call.fn = "compute" /\ ret # None /\ Bound(call.self, call.env)) =>
    LET edits == EditsOf(call.self, call.env)
    IN \A i \in 1..Len(edits), j \in 1..Len(edits) :
         i < j => edits[i].position <= edits[j].position

\* Two captured nodes and two sub-rules: four edits were produced, the one
\* of the inner call nested in the one of the second capture, and the merge
\* panicked.
C17_Witness ==
  /\ call.fn = "compute"
  /\ ret # None
  /\ Bound(call.self, call.env)
  /\ Len(Captures) = 2
  /\ call.self.rewrites = <<"cll", "num">>
  /\ call.self.join_by = None
  /\ Overlaps(EditsOf(call.self, call.env))
  /\ Unwrap(ret).panic

\* C18: make_edit returns a byte sequence exactly when the edit list is in
\* non-decreasing order, non-overlapping and inside the anchored span; when
\* some edit starts before the anchor offset, starts before the end of the
\* edit before it, or reaches past the end of the original bytes, it panics
\* with an out-of-range failure and returns nothing.
C18_MakeEditPanicsOnIllFormed ==
  (call.fn = "make_edit" /\ ret # None) =>
    LET edits == call.edits
        offset == call.offset
        len == Len(call.old_content)
        before_anchor == \E i \in 1..Len(edits) : edits[i].position < offset
        before_previous == \E i \in 1..(Len(edits) - 1) :
                             edits[i + 1].position < EditEnd(edits[i])
        past_end == \E i \in 1..Len(edits) : EditEnd(edits[i]) > offset + len
    IN /\ (before_anchor \/ before_previous \/ past_end) => Unwrap(ret) = Panic
       /\ ~Unwrap(ret).panic => WellFormedEdits(edits, offset, len)
       /\ Unwrap(ret).panic => (before_anchor \/ before_previous \/ past_end)

\* Two edits inside the span, the second one starting before the end of the
\* first: make_edit panicked.
C18_Witness ==
  /\ call.fn = "make_edit"
  /\ ret # None
  /\ Len(call.edits) = 2
  /\ \A i \in 1..2 :
       /\ call.edits[i].position >= call.offset
       /\ EditEnd(call.edits[i]) <= call.offset + Len(call.old_content)
  /\ call.edits[1].position < call.edits[2].position
  /\ call.edits[2].position < EditEnd(call.edits[1])
  /\ Unwrap(ret) = Panic

(***************************************************************************)
(* Termination of a run (specification SpecFair): the run under a          *)
(* scheduler that lets every thread that can take a step take one. Every   *)
(* matcher call and every reporter call returns: each is one step.         *)
(***************************************************************************)
\* The steps of the coordinating thread within one run.
Coordinator ==
  \/ BeforeReport
  \/ Spawn
  \/ SpawnDone
  \/ Join
  \/ Collected
  \/ AfterReport
  \/ ReportFailedCases
  \/ CollectSnapshotAction
  \/ ApplySnapshotAction
  \/ WriteOne
  \/ WriteDone

\* The steps of the k-th worker thread, if the run has one.
WorkerStep(k) == k \in 1..NumChunks /\ (Classify(k) \/ Lock(k) \/ Report(k))

Fairness ==
  /\ WF_vars(Coordinator)
  /\ \A k \in 1..MaxCases : WF_vars(WorkerStep(k))

\* One run, from the call of run_test_rule_impl to its return, on the cases
\* of a rule that exists and of one that does not.
InitFair ==
  /\ \E cases \in SeqsUpTo({tc \in TestCasePool : tc.id \in {"r1", "ghost"}}, MaxCases),
        cpus \in Parallelism, skip \in BOOLEAN, store \in InitialStores :
       StartRun(cases, cpus, skip, store, "none")
  /\ call = NoCall
  /\ ret = None

NextFair == Coordinator \/ Worker

SpecFair == InitFair /\ [][NextFair]_vars /\ Fairness

\* C19: under fair scheduling the run that has started reaches its verdict,
\* and at the verdict every worker has been started, has finished its chunk
\* and has been joined; a run that has not ended can take a step; the
\* coordinating thread holds the reporter lock only when no worker is
\* running, and no thread that waits for the lock holds it.
C19_RunTerminates ==
  /\ [](pc # "done" => ENABLED Coordinator \/ \E k \in 1..NumChunks : ENABLED WorkerStep(k))
  /\ [](lock = HeldBy(MainThread) => \A k \in 1..NumChunks : workers[k].pc = "joined")
  /\ [](\A k \in 1..NumChunks : workers[k].pc = "lock" => lock # HeldBy(k))
  /\ []((pc = "join" /\ joined = NumChunks) => lock # HeldBy(MainThread))
  /\ [](pc \notin {"before_report", "spawn", "join"} =>
         /\ spawned = NumChunks
         /\ \A k \in 1..NumChunks :
              workers[k].pc = "joined" /\ workers[k].i = Len(Chunk(k)))
  /\ (pc = "before_report") ~> (pc = "done" /\ IsSome(result))

\* A run of three workers has reached its verdict after the reporter's
\* lines of all three.
C19_Witness ==
  /\ pc = "done"
  /\ NumChunks = 3
  /\ IsSome(result)
  /\ \A k \in 1..3 : workers[k].pc = "joined"
  /\ Len(output) >= 5

(***************************************************************************)
(* Properties of a run with snapshot tests skipped (specification Spec).   *)
(***************************************************************************)
\* C20: when snapshot tests are skipped the run has no snapshot collection,
\* no status is Wrong, and the snapshot store stays as it was when the run
\* started: nothing is merged, write_merged_to_disk is not entered, no
\* directory is created and no file is written, whatever action the
\* reporter returns; the action is discarded and the failing run ends with
\* the test failure.
C20_SkippedSnapshotsNeverWritten ==
  skip_snapshot_tests =>
    /\ snapshots = None
    /\ files = store0.files
    /\ dirs = store0.dirs
    /\ merged = <<>>
    /\ pc # "write_merged_to_disk"
    /\ ~HasKind(results, {"Wrong"})
    /\ (pc = "done" /\ IsSome(action)) => result = Some(TestFail)

\* A failing run with snapshot tests skipped has ended after the reporter
\* answered "update all", with stored snapshots on disk.
C20_Witness ==
  /\ skip_snapshot_tests
  /\ pc = "done"
  /\ action = Some(AcceptAll)
  /\ result = Some(TestFail)
  /\ files # <<>>

====
